---- MODULE Spec2Model ----
(***************************************************************************)
(* Model of AssetServiceGrpcAsyncIOTransport                               *)
(* (google/cloud/asset_v1/services/asset_service/transports/               *)
(* grpc_asyncio.py): construction of the transport, the cached             *)
(* grpc_channel and operations_client properties and the nine cached stub  *)
(* properties.  The gRPC runtime, the credential library and the           *)
(* operations client are the environment: every call into them either      *)
(* returns a fresh object or raises one of a small set of errors.          *)
(***************************************************************************)
EXTENDS Integers, Sequences, FiniteSets, TLC

VARIABLES phase, args, w, base_call, ret, hist, reads

vars == <<phase, args, w, base_call, ret, hist, reads>>

\* ---------------------------------------------------------------- bounds
\* Number of property reads made on the instance after construction.
MaxReads == 2

\* ------------------------------------------------------ values and inputs
\* Python's None, and the mark of an attribute that was never assigned
\* (hasattr(self, "_grpc_channel") is False, key missing from __dict__).
\* Every Python value is a record tagged with its type.
None == [t |-> "None"]
Absent == [t |-> "Absent"]
False == [t |-> "bool", b |-> FALSE]
Str(s) == [t |-> "str", s |-> s]

\* "No error": the code returned.
NoError == "NoError"

\* Errors the external libraries (and a client_cert_source callback) raise.
Errors == {"E1", "E2"}

\* What one call into the environment does: return, or raise an error.
Outcomes == {"ok"} \cup Errors

\* Host strings, as sequences of characters.
HostValues == {Str(<<"h">>), Str(<<"h", ":", "8">>)}

\* api_mtls_endpoint values: None, the empty string, one without and one
\* with a port.
EndpointValues == {None, Str(<<>>), Str(<<"m">>), Str(<<"m", ":", "9">>)}

CredentialValues == {None, [t |-> "Credentials"]}

CredentialsFileValues == {None, Str(<<"f">>)}

\* A caller-provided aio.Channel object, or None.
ProvidedChannel == [t |-> "Channel", origin |-> "provided", id |-> 0]

ChannelValues == {None, ProvidedChannel}

\* A caller-provided callback returning (cert, key), or None.
CertSourceValues == {None, [t |-> "function"]}

ArgValues ==
    [host : HostValues, credentials : CredentialValues,
     credentials_file : CredentialsFileValues, channel : ChannelValues,
     api_mtls_endpoint : EndpointValues,
     client_cert_source : CertSourceValues]

\* scopes and quota_project_id are handed on as given to create_channel and
\* to the base constructor and decide no branch; they are left out.

\* Python truthiness of the values above: None, False and "" are falsy.
Truthy(v) ==
    CASE v.t = "None" -> FALSE
      [] v.t = "bool" -> v.b
      [] v.t = "str" -> v.s # <<>>
      [] OTHER -> TRUE

\* ":" in s
HasColon(s) == \E i \in 1..Len(s.s) : s.s[i] = ":"

\* The nine names under which stubs are cached.
MethodNames ==
    {"export_assets", "batch_get_assets_history", "create_feed", "get_feed",
     "list_feeds", "update_feed", "delete_feed", "search_all_resources",
     "search_all_iam_policies"}

\* ------------------------------------------------------------ the world
\* w holds the instance's attributes (grpc_channel: _grpc_channel,
\* stubs: _stubs, ops: __dict__["operations_client"], host: _host,
\* credentials: _credentials) and the environment's bookkeeping: how often
\* each external call was made (ccCalls, uuCalls, opsCalls, certCalls), how
\* often it returned an object (ccOk, uuOk, opsOk), the error the
\* environment raised during the current operation (libErr).  An object the
\* environment creates is identified by its type and its serial number
\* among the objects of that type (for a stub: created for that property).
NoInstance ==
    [grpc_channel |-> Absent, stubs |-> <<>>, ops |-> Absent,
     host |-> Absent, credentials |-> Absent,
     ccCalls |-> 0, ccOk |-> 0,
     uuCalls |-> [k \in MethodNames |-> 0], uuOk |-> [k \in MethodNames |-> 0],
     opsCalls |-> 0, opsOk |-> 0, certCalls |-> 0,
     libErr |-> [site |-> "None", err |-> NoError]]

\* The result of running a piece of code: the world after it, the error it
\* raised (None when it returned) and the value it returned.
Returned(world, value) == [w |-> world, raised |-> NoError, value |-> value]

Raised(world, err) == [w |-> world, raised |-> err, value |-> None]

\* The environment raises err at the named call site.
LibRaise(world, site, err) ==
    Raised([world EXCEPT !.libErr = [site |-> site, err |-> err]], err)

\* --------------------------------------------------------- create_channel
\* grpc_helpers_async.create_channel, reached through the classmethod
\* create_channel: a new channel bound to what it was given, or an error.
create_channel(world, host, credentials, credentials_file, ssl_credentials, o) ==
    LET called == [world EXCEPT !.ccCalls = @ + 1]
    IN  IF o # "ok"
        THEN LibRaise(called, "create_channel", o)
        ELSE Returned([called EXCEPT !.ccOk = @ + 1],
                      [t |-> "Channel", origin |-> "created",
                       id |-> world.ccOk + 1,
                       host |-> host, credentials |-> credentials,
                       credentials_file |-> credentials_file,
                       ssl_credentials |-> ssl_credentials])

\* client_cert_source(): the caller's callback, returning (cert, key).
client_cert_source_call(world, o) ==
    LET called == [world EXCEPT !.certCalls = @ + 1]
    IN  IF o # "ok"
        THEN LibRaise(called, "client_cert_source", o)
        ELSE Returned(called, [t |-> "tuple", cert |-> "cert", key |-> "key"])

\* ---------------------------------------------------- base constructor
\* AssetServiceTransport.__init__ : raises DuplicateCredentialArgs when both
\* credentials and credentials_file are passed, otherwise keeps the host and
\* the credentials for the grpc_channel property to use.
DuplicateCredentialArgs == "DuplicateCredentialArgs"

base_init(world, host, credentials, credentials_file) ==
    IF Truthy(credentials) /\ Truthy(credentials_file)
    THEN Raised(world, DuplicateCredentialArgs)
    ELSE Returned([world EXCEPT !.host = host, !.credentials = credentials],
                  None)

\* Mutation of mtls_host: ":443" is appended to every endpoint.
mtls_host_always_port(api_mtls_endpoint) ==
    Str(api_mtls_endpoint.s \o <<":", "4", "4", "3">>)

\* The overriding host of the mutual TLS branch.
mtls_host(api_mtls_endpoint) ==
    IF HasColon(api_mtls_endpoint)
    THEN api_mtls_endpoint
    ELSE Str(api_mtls_endpoint.s \o <<":", "4", "4", "3">>)

\* __init__, "if channel:" branch: the credentials are replaced by False and
\* the provided channel is kept.
init_with_channel(a) ==
    [w |-> [NoInstance EXCEPT !.grpc_channel = a.channel],
     raised |-> NoError, host |-> a.host, credentials |-> False]

\* __init__, "elif api_mtls_endpoint:" branch: the host is overridden, SSL
\* credentials come from the callback or from the application default, and
\* the channel is created.
init_with_mtls(a, oCert, oCC) ==
    LET host == mtls_host(a.api_mtls_endpoint)
        cs == IF Truthy(a.client_cert_source)
              THEN client_cert_source_call(NoInstance, oCert)
              ELSE Returned(NoInstance, None)
        ssl == IF Truthy(a.client_cert_source)
               THEN [t |-> "ChannelCredentials", kind |-> "client_cert",
                     certificate_chain |-> cs.value.cert,
                     private_key |-> cs.value.key]
               ELSE [t |-> "ChannelCredentials", kind |-> "application_default"]
    IN  IF cs.raised # NoError
        THEN [w |-> cs.w, raised |-> cs.raised, host |-> host,
              credentials |-> a.credentials]
        ELSE LET cc == create_channel(cs.w, host, a.credentials,
                                      a.credentials_file, ssl, oCC)
             IN  [w |-> IF cc.raised # NoError THEN cc.w
                        ELSE [cc.w EXCEPT !.grpc_channel = cc.value],
                  raised |-> cc.raised, host |-> host,
                  credentials |-> a.credentials]

\* __init__ with neither: no channel yet, host and credentials as given.
init_without_channel(a) ==
    [w |-> NoInstance, raised |-> NoError, host |-> a.host,
     credentials |-> a.credentials]

\* Mutation of init_channel: api_mtls_endpoint is tested before channel.
init_channel_endpoint_first(a, oCert, oCC) ==
    IF Truthy(a.api_mtls_endpoint) THEN init_with_mtls(a, oCert, oCC)
    ELSE IF Truthy(a.channel) THEN init_with_channel(a)
    ELSE init_without_channel(a)

\* Mutation of init_channel: the callback is invoked whenever it is given
\* and no channel is.
init_channel_callback_always(a, oCert, oCC) ==
    IF Truthy(a.channel) THEN init_with_channel(a)
    ELSE IF Truthy(a.api_mtls_endpoint) THEN init_with_mtls(a, oCert, oCC)
    ELSE IF Truthy(a.client_cert_source)
    THEN LET cs == client_cert_source_call(NoInstance, oCert)
         IN  [w |-> cs.w, raised |-> cs.raised, host |-> a.host,
              credentials |-> a.credentials]
    ELSE init_without_channel(a)

\* __init__, first part: the channel.  Yields the world, the local variables
\* host and credentials as the base constructor will see them, and the error
\* raised on the way, if any.
init_channel(a, oCert, oCC) ==
    IF Truthy(a.channel) THEN init_with_channel(a)
    ELSE IF Truthy(a.api_mtls_endpoint) THEN init_with_mtls(a, oCert, oCC)
    ELSE init_without_channel(a)

\* __init__: the channel, then the base constructor, then an empty stub
\* cache.  base is the call made to the base constructor (None when
\* construction raised before reaching it).
init(a, oCert, oCC) ==
    LET ch == init_channel(a, oCert, oCC)
    IN  IF ch.raised # NoError
        THEN [w |-> ch.w, raised |-> ch.raised, base |-> None]
        ELSE LET call == [host |-> ch.host, credentials |-> ch.credentials,
                          credentials_file |-> a.credentials_file]
                 b == base_init(ch.w, call.host, call.credentials,
                                call.credentials_file)
             IN  [w |-> IF b.raised # NoError THEN b.w
                        ELSE [b.w EXCEPT !.stubs = <<>>],
                  raised |-> b.raised, base |-> call]

\* ------------------------------------------------------------ properties
\* What an operation starts from: no error raised by the environment yet.
Fresh(world) == [world EXCEPT !.libErr = [site |-> "None", err |-> NoError]]

\* Mutation of grpc_channel: a channel is created at every read.
grpc_channel_uncached(world, oCC) ==
    LET cc == create_channel(world, world.host, world.credentials,
                             None, None, oCC)
    IN  IF cc.raised # NoError
        THEN Raised(cc.w, cc.raised)
        ELSE Returned([cc.w EXCEPT !.grpc_channel = cc.value], cc.value)

\* The grpc_channel property.
grpc_channel(world, oCC) ==
    IF world.grpc_channel = Absent
    THEN LET cc == create_channel(world, world.host, world.credentials,
                                  None, None, oCC)
         IN  IF cc.raised # NoError
             THEN Raised(cc.w, cc.raised)
             ELSE Returned([cc.w EXCEPT !.grpc_channel = cc.value], cc.value)
    ELSE Returned(world, world.grpc_channel)

\* operations_v1.OperationsAsyncClient(channel)
OperationsAsyncClient(world, channel, o) ==
    LET called == [world EXCEPT !.opsCalls = @ + 1]
    IN  IF o # "ok"
        THEN LibRaise(called, "OperationsAsyncClient", o)
        ELSE Returned([called EXCEPT !.opsOk = @ + 1],
                      [t |-> "OperationsAsyncClient", id |-> world.opsOk + 1,
                       channel |-> channel])

\* Mutation of operations_client: a client is constructed at every read.
operations_client_uncached(world, oCC, oOps) ==
    LET ch == grpc_channel(world, oCC)
    IN  IF ch.raised # NoError
        THEN Raised(ch.w, ch.raised)
        ELSE LET oc == OperationsAsyncClient(ch.w, ch.value, oOps)
             IN  IF oc.raised # NoError
                 THEN Raised(oc.w, oc.raised)
                 ELSE Returned([oc.w EXCEPT !.ops = oc.value], oc.value)

\* The operations_client property.
operations_client(world, oCC, oOps) ==
    IF world.ops = Absent
    THEN LET ch == grpc_channel(world, oCC)
         IN  IF ch.raised # NoError
             THEN Raised(ch.w, ch.raised)
             ELSE LET oc == OperationsAsyncClient(ch.w, ch.value, oOps)
                  IN  IF oc.raised # NoError
                      THEN Raised(oc.w, oc.raised)
                      ELSE Returned([oc.w EXCEPT !.ops = oc.value], oc.value)
    ELSE Returned(world, world.ops)

\* channel.unary_unary(path, request_serializer=..., response_deserializer=...)
\* prop names the property that makes the call.
unary_unary(world, prop, channel, path, request_serializer, response_deserializer, o) ==
    LET called == [world EXCEPT !.uuCalls[prop] = @ + 1]
    IN  IF o # "ok"
        THEN LibRaise(called, "unary_unary", o)
        ELSE Returned([called EXCEPT !.uuOk[prop] = @ + 1],
                      [t |-> "UnaryUnaryMultiCallable",
                       id |-> <<prop, world.uuOk[prop] + 1>>,
                       channel |-> channel, path |-> path,
                       request_serializer |-> request_serializer,
                       response_deserializer |-> response_deserializer])

\* self._stubs[key] = stub
StoreStub(stubs, key, stub) ==
    [k \in DOMAIN stubs \cup {key} |-> IF k = key THEN stub ELSE stubs[k]]

\* Creates the stub on channel ch.value and stores it under k_store.
create_stub(ch, prop, k_store, path, req, resp, oUU) ==
    LET uu == unary_unary(ch.w, prop, ch.value, path, req, resp, oUU)
    IN  IF uu.raised # NoError
        THEN Raised(uu.w, uu.raised)
        ELSE Returned([uu.w EXCEPT !.stubs = StoreStub(@, k_store, uu.value)],
                      None)

\* Mutation of fill_stub: the stub is created at every read.
fill_stub_uncached(world, prop, k_test, k_store, path, req, resp, oCC, oUU) ==
    LET ch == grpc_channel(world, oCC)
    IN  IF ch.raised # NoError
        THEN Raised(ch.w, ch.raised)
        ELSE create_stub(ch, prop, k_store, path, req, resp, oUU)

\* Mutation of fill_stub: an error of unary_unary is caught and None is
\* cached in place of the stub.
fill_stub_swallowing(world, prop, k_test, k_store, path, req, resp, oCC, oUU) ==
    IF k_test \notin DOMAIN world.stubs
    THEN LET ch == grpc_channel(world, oCC)
             made == create_stub(ch, prop, k_store, path, req, resp, oUU)
         IN  IF ch.raised # NoError
             THEN Raised(ch.w, ch.raised)
             ELSE IF made.raised # NoError
             THEN Returned([made.w EXCEPT !.stubs = StoreStub(@, k_store, None)],
                           None)
             ELSE made
    ELSE Returned(world, None)

\* The "if key not in self._stubs:" statement of a stub property.
fill_stub(world, prop, k_test, k_store, path, req, resp, oCC, oUU) ==
    IF k_test \notin DOMAIN world.stubs
    THEN LET ch == grpc_channel(world, oCC)
         IN  IF ch.raised # NoError
             THEN Raised(ch.w, ch.raised)
             ELSE create_stub(ch, prop, k_store, path, req, resp, oUU)
    ELSE Returned(world, None)

\* The body shared by the nine stub properties: test one key, store under a
\* key, return the entry of a key; each property supplies its own three
\* literals, path, serializer and deserializer.
stub_property(world, prop, k_test, k_store, k_return, path, req, resp, oCC, oUU) ==
    LET filled == fill_stub(world, prop, k_test, k_store, path, req, resp,
                            oCC, oUU)
    IN  IF filled.raised # NoError
        THEN filled
        ELSE IF k_return \in DOMAIN filled.w.stubs
        THEN Returned(filled.w, filled.w.stubs[k_return])
        ELSE Raised(filled.w, "KeyError")

Serializer(type, fn) == [t |-> "method", type |-> type, fn |-> fn]

export_assets(world, oCC, oUU) ==
    stub_property(world, "export_assets",
        "export_assets", "export_assets", "export_assets",
        "/google.cloud.asset.v1.AssetService/ExportAssets",
        Serializer("ExportAssetsRequest", "serialize"),
        Serializer("Operation", "FromString"), oCC, oUU)

batch_get_assets_history(world, oCC, oUU) ==
    stub_property(world, "batch_get_assets_history",
        "batch_get_assets_history", "batch_get_assets_history",
        "batch_get_assets_history",
        "/google.cloud.asset.v1.AssetService/BatchGetAssetsHistory",
        Serializer("BatchGetAssetsHistoryRequest", "serialize"),
        Serializer("BatchGetAssetsHistoryResponse", "deserialize"), oCC, oUU)

create_feed(world, oCC, oUU) ==
    stub_property(world, "create_feed",
        "create_feed", "create_feed", "create_feed",
        "/google.cloud.asset.v1.AssetService/CreateFeed",
        Serializer("CreateFeedRequest", "serialize"),
        Serializer("Feed", "deserialize"), oCC, oUU)

\* Mutation of get_feed: the stub is registered with the path of CreateFeed.
get_feed_with_create_feed_path(world, oCC, oUU) ==
    stub_property(world, "get_feed",
        "get_feed", "get_feed", "get_feed",
        "/google.cloud.asset.v1.AssetService/CreateFeed",
        Serializer("GetFeedRequest", "serialize"),
        Serializer("Feed", "deserialize"), oCC, oUU)

get_feed(world, oCC, oUU) ==
    stub_property(world, "get_feed",
        "get_feed", "get_feed", "get_feed",
        "/google.cloud.asset.v1.AssetService/GetFeed",
        Serializer("GetFeedRequest", "serialize"),
        Serializer("Feed", "deserialize"), oCC, oUU)

list_feeds(world, oCC, oUU) ==
    stub_property(world, "list_feeds",
        "list_feeds", "list_feeds", "list_feeds",
        "/google.cloud.asset.v1.AssetService/ListFeeds",
        Serializer("ListFeedsRequest", "serialize"),
        Serializer("ListFeedsResponse", "deserialize"), oCC, oUU)

update_feed(world, oCC, oUU) ==
    stub_property(world, "update_feed",
        "update_feed", "update_feed", "update_feed",
        "/google.cloud.asset.v1.AssetService/UpdateFeed",
        Serializer("UpdateFeedRequest", "serialize"),
        Serializer("Feed", "deserialize"), oCC, oUU)

delete_feed(world, oCC, oUU) ==
    stub_property(world, "delete_feed",
        "delete_feed", "delete_feed", "delete_feed",
        "/google.cloud.asset.v1.AssetService/DeleteFeed",
        Serializer("DeleteFeedRequest", "serialize"),
        Serializer("Empty", "FromString"), oCC, oUU)

search_all_resources(world, oCC, oUU) ==
    stub_property(world, "search_all_resources",
        "search_all_resources", "search_all_resources",
        "search_all_resources",
        "/google.cloud.asset.v1.AssetService/SearchAllResources",
        Serializer("SearchAllResourcesRequest", "serialize"),
        Serializer("SearchAllResourcesResponse", "deserialize"), oCC, oUU)

search_all_iam_policies(world, oCC, oUU) ==
    stub_property(world, "search_all_iam_policies",
        "search_all_iam_policies", "search_all_iam_policies",
        "search_all_iam_policies",
        "/google.cloud.asset.v1.AssetService/SearchAllIamPolicies",
        Serializer("SearchAllIamPoliciesRequest", "serialize"),
        Serializer("SearchAllIamPoliciesResponse", "deserialize"), oCC, oUU)

\* ---------------------------------------------------------------- actions
\* The other two properties of the instance.
PropertyNames == MethodNames \cup {"grpc_channel", "operations_client"}

\* What the reads made so far returned: the channels, the operations clients
\* and, per stub property, the stubs; and how many reads of each property
\* returned.
NoHistory ==
    [channels |-> {}, ops |-> {}, stubs |-> [k \in MethodNames |-> {}],
     served |-> [p \in PropertyNames |-> 0]]

Init ==
    /\ phase = "new"
    /\ args = None
    /\ w = NoInstance
    /\ base_call = None
    /\ ret = [op |-> "None", raised |-> NoError, value |-> None]
    /\ hist = NoHistory
    /\ reads = 0

\* AssetServiceGrpcAsyncIOTransport(**a)
Construct ==
    /\ phase = "new"
    /\ \E a \in ArgValues, oCert \in Outcomes, oCC \in Outcomes :
          LET r == init(a, oCert, oCC)
          IN  /\ phase' = IF r.raised = NoError THEN "live" ELSE "failed"
              /\ args' = a
              /\ w' = r.w
              /\ base_call' = r.base
              /\ ret' = [op |-> "__init__", raised |-> r.raised, value |-> None]
    /\ UNCHANGED <<hist, reads>>

\* One read of a property: r is what its code did.
Read(op, r) ==
    /\ w' = r.w
    /\ ret' = [op |-> op, raised |-> r.raised, value |-> r.value]
    /\ reads' = reads + 1
    /\ UNCHANGED <<phase, args, base_call>>

CanRead == phase = "live" /\ reads < MaxReads

\* transport.grpc_channel
ReadGrpcChannel ==
    /\ CanRead
    /\ \E oCC \in Outcomes :
          LET r == grpc_channel(Fresh(w), oCC)
          IN  /\ Read("grpc_channel", r)
              /\ hist' = IF r.raised = NoError
                         THEN [hist EXCEPT !.channels = @ \cup {r.value},
                                           !.served["grpc_channel"] = @ + 1]
                         ELSE hist

\* transport.operations_client
ReadOperationsClient ==
    /\ CanRead
    /\ \E oCC \in Outcomes, oOps \in Outcomes :
          LET r == operations_client(Fresh(w), oCC, oOps)
          IN  /\ Read("operations_client", r)
              /\ hist' = IF r.raised = NoError
                         THEN [hist EXCEPT !.ops = @ \cup {r.value},
                                           !.served["operations_client"] = @ + 1]
                         ELSE hist

\* One read of the stub property named op.
ReadStub(op, r) ==
    /\ Read(op, r)
    /\ hist' = IF r.raised = NoError
               THEN [hist EXCEPT !.stubs[op] = @ \cup {r.value},
                                 !.served[op] = @ + 1]
               ELSE hist

ReadExportAssets ==
    /\ CanRead
    /\ \E oCC \in Outcomes, oUU \in Outcomes :
          ReadStub("export_assets", export_assets(Fresh(w), oCC, oUU))

ReadBatchGetAssetsHistory ==
    /\ CanRead
    /\ \E oCC \in Outcomes, oUU \in Outcomes :
          ReadStub("batch_get_assets_history",
                   batch_get_assets_history(Fresh(w), oCC, oUU))

ReadCreateFeed ==
    /\ CanRead
    /\ \E oCC \in Outcomes, oUU \in Outcomes :
          ReadStub("create_feed", create_feed(Fresh(w), oCC, oUU))

ReadGetFeed ==
    /\ CanRead
    /\ \E oCC \in Outcomes, oUU \in Outcomes :
          ReadStub("get_feed", get_feed(Fresh(w), oCC, oUU))

ReadListFeeds ==
    /\ CanRead
    /\ \E oCC \in Outcomes, oUU \in Outcomes :
          ReadStub("list_feeds", list_feeds(Fresh(w), oCC, oUU))

ReadUpdateFeed ==
    /\ CanRead
    /\ \E oCC \in Outcomes, oUU \in Outcomes :
          ReadStub("update_feed", update_feed(Fresh(w), oCC, oUU))

ReadDeleteFeed ==
    /\ CanRead
    /\ \E oCC \in Outcomes, oUU \in Outcomes :
          ReadStub("delete_feed", delete_feed(Fresh(w), oCC, oUU))

ReadSearchAllResources ==
    /\ CanRead
    /\ \E oCC \in Outcomes, oUU \in Outcomes :
          ReadStub("search_all_resources",
                   search_all_resources(Fresh(w), oCC, oUU))

ReadSearchAllIamPolicies ==
    /\ CanRead
    /\ \E oCC \in Outcomes, oUU \in Outcomes :
          ReadStub("search_all_iam_policies",
                   search_all_iam_policies(Fresh(w), oCC, oUU))

Next ==
    \/ Construct
    \/ ReadGrpcChannel
    \/ ReadOperationsClient
    \/ ReadExportAssets
    \/ ReadBatchGetAssetsHistory
    \/ ReadCreateFeed
    \/ ReadGetFeed
    \/ ReadListFeeds
    \/ ReadUpdateFeed
    \/ ReadDeleteFeed
    \/ ReadSearchAllResources
    \/ ReadSearchAllIamPolicies

Spec == Init /\ [][Next]_vars

\* ------------------------------------------------- strings as characters
\* The characters of the string literals of the source.
Spell(s) ==
    CASE s = "export_assets" -> <<"e", "x", "p", "o", "r", "t", "_", "a", "s", "s", "e", "t", "s">>
      [] s = "batch_get_assets_history" -> <<"b", "a", "t", "c", "h", "_", "g", "e", "t", "_", "a", "s", "s", "e", "t", "s", "_", "h", "i", "s", "t", "o", "r", "y">>
      [] s = "create_feed" -> <<"c", "r", "e", "a", "t", "e", "_", "f", "e", "e", "d">>
      [] s = "get_feed" -> <<"g", "e", "t", "_", "f", "e", "e", "d">>
      [] s = "list_feeds" -> <<"l", "i", "s", "t", "_", "f", "e", "e", "d", "s">>
      [] s = "update_feed" -> <<"u", "p", "d", "a", "t", "e", "_", "f", "e", "e", "d">>
      [] s = "delete_feed" -> <<"d", "e", "l", "e", "t", "e", "_", "f", "e", "e", "d">>
      [] s = "search_all_resources" -> <<"s", "e", "a", "r", "c", "h", "_", "a", "l", "l", "_", "r", "e", "s", "o", "u", "r", "c", "e", "s">>
      [] s = "search_all_iam_policies" -> <<"s", "e", "a", "r", "c", "h", "_", "a", "l", "l", "_", "i", "a", "m", "_", "p", "o", "l", "i", "c", "i", "e", "s">>
      [] s = "/google.cloud.asset.v1.AssetService/ExportAssets" -> <<"/", "g", "o", "o", "g", "l", "e", ".", "c", "l", "o", "u", "d", ".", "a", "s", "s", "e", "t", ".", "v", "1", ".", "A", "s", "s", "e", "t", "S", "e", "r", "v", "i", "c", "e", "/", "E", "x", "p", "o", "r", "t", "A", "s", "s", "e", "t", "s">>
      [] s = "/google.cloud.asset.v1.AssetService/BatchGetAssetsHistory" -> <<"/", "g", "o", "o", "g", "l", "e", ".", "c", "l", "o", "u", "d", ".", "a", "s", "s", "e", "t", ".", "v", "1", ".", "A", "s", "s", "e", "t", "S", "e", "r", "v", "i", "c", "e", "/", "B", "a", "t", "c", "h", "G", "e", "t", "A", "s", "s", "e", "t", "s", "H", "i", "s", "t", "o", "r", "y">>
      [] s = "/google.cloud.asset.v1.AssetService/CreateFeed" -> <<"/", "g", "o", "o", "g", "l", "e", ".", "c", "l", "o", "u", "d", ".", "a", "s", "s", "e", "t", ".", "v", "1", ".", "A", "s", "s", "e", "t", "S", "e", "r", "v", "i", "c", "e", "/", "C", "r", "e", "a", "t", "e", "F", "e", "e", "d">>
      [] s = "/google.cloud.asset.v1.AssetService/GetFeed" -> <<"/", "g", "o", "o", "g", "l", "e", ".", "c", "l", "o", "u", "d", ".", "a", "s", "s", "e", "t", ".", "v", "1", ".", "A", "s", "s", "e", "t", "S", "e", "r", "v", "i", "c", "e", "/", "G", "e", "t", "F", "e", "e", "d">>
      [] s = "/google.cloud.asset.v1.AssetService/ListFeeds" -> <<"/", "g", "o", "o", "g", "l", "e", ".", "c", "l", "o", "u", "d", ".", "a", "s", "s", "e", "t", ".", "v", "1", ".", "A", "s", "s", "e", "t", "S", "e", "r", "v", "i", "c", "e", "/", "L", "i", "s", "t", "F", "e", "e", "d", "s">>
      [] s = "/google.cloud.asset.v1.AssetService/UpdateFeed" -> <<"/", "g", "o", "o", "g", "l", "e", ".", "c", "l", "o", "u", "d", ".", "a", "s", "s", "e", "t", ".", "v", "1", ".", "A", "s", "s", "e", "t", "S", "e", "r", "v", "i", "c", "e", "/", "U", "p", "d", "a", "t", "e", "F", "e", "e", "d">>
      [] s = "/google.cloud.asset.v1.AssetService/DeleteFeed" -> <<"/", "g", "o", "o", "g", "l", "e", ".", "c", "l", "o", "u", "d", ".", "a", "s", "s", "e", "t", ".", "v", "1", ".", "A", "s", "s", "e", "t", "S", "e", "r", "v", "i", "c", "e", "/", "D", "e", "l", "e", "t", "e", "F", "e", "e", "d">>
      [] s = "/google.cloud.asset.v1.AssetService/SearchAllResources" -> <<"/", "g", "o", "o", "g", "l", "e", ".", "c", "l", "o", "u", "d", ".", "a", "s", "s", "e", "t", ".", "v", "1", ".", "A", "s", "s", "e", "t", "S", "e", "r", "v", "i", "c", "e", "/", "S", "e", "a", "r", "c", "h", "A", "l", "l", "R", "e", "s", "o", "u", "r", "c", "e", "s">>
      [] s = "/google.cloud.asset.v1.AssetService/SearchAllIamPolicies" -> <<"/", "g", "o", "o", "g", "l", "e", ".", "c", "l", "o", "u", "d", ".", "a", "s", "s", "e", "t", ".", "v", "1", ".", "A", "s", "s", "e", "t", "S", "e", "r", "v", "i", "c", "e", "/", "S", "e", "a", "r", "c", "h", "A", "l", "l", "I", "a", "m", "P", "o", "l", "i", "c", "i", "e", "s">>
      [] s = "ExportAssetsRequest" -> <<"E", "x", "p", "o", "r", "t", "A", "s", "s", "e", "t", "s", "R", "e", "q", "u", "e", "s", "t">>
      [] s = "BatchGetAssetsHistoryRequest" -> <<"B", "a", "t", "c", "h", "G", "e", "t", "A", "s", "s", "e", "t", "s", "H", "i", "s", "t", "o", "r", "y", "R", "e", "q", "u", "e", "s", "t">>
      [] s = "CreateFeedRequest" -> <<"C", "r", "e", "a", "t", "e", "F", "e", "e", "d", "R", "e", "q", "u", "e", "s", "t">>
      [] s = "GetFeedRequest" -> <<"G", "e", "t", "F", "e", "e", "d", "R", "e", "q", "u", "e", "s", "t">>
      [] s = "ListFeedsRequest" -> <<"L", "i", "s", "t", "F", "e", "e", "d", "s", "R", "e", "q", "u", "e", "s", "t">>
      [] s = "UpdateFeedRequest" -> <<"U", "p", "d", "a", "t", "e", "F", "e", "e", "d", "R", "e", "q", "u", "e", "s", "t">>
      [] s = "DeleteFeedRequest" -> <<"D", "e", "l", "e", "t", "e", "F", "e", "e", "d", "R", "e", "q", "u", "e", "s", "t">>
      [] s = "SearchAllResourcesRequest" -> <<"S", "e", "a", "r", "c", "h", "A", "l", "l", "R", "e", "s", "o", "u", "r", "c", "e", "s", "R", "e", "q", "u", "e", "s", "t">>
      [] s = "SearchAllIamPoliciesRequest" -> <<"S", "e", "a", "r", "c", "h", "A", "l", "l", "I", "a", "m", "P", "o", "l", "i", "c", "i", "e", "s", "R", "e", "q", "u", "e", "s", "t">>
      [] s = "/google.cloud.asset.v1.AssetService/" -> <<"/", "g", "o", "o", "g", "l", "e", ".", "c", "l", "o", "u", "d", ".", "a", "s", "s", "e", "t", ".", "v", "1", ".", "A", "s", "s", "e", "t", "S", "e", "r", "v", "i", "c", "e", "/">>
      [] s = "Request" -> <<"R", "e", "q", "u", "e", "s", "t">>

      [] OTHER -> <<>>

\* ------------------------------------------------------------ CamelCase
Lower == <<"a", "b", "c", "d", "e", "f", "g", "h", "i", "j", "k", "l", "m",
           "n", "o", "p", "q", "r", "s", "t", "u", "v", "w", "x", "y", "z">>

Upper == <<"A", "B", "C", "D", "E", "F", "G", "H", "I", "J", "K", "L", "M",
           "N", "O", "P", "Q", "R", "S", "T", "U", "V", "W", "X", "Y", "Z">>

Capital(c) ==
    IF \E i \in 1..Len(Lower) : Lower[i] = c
    THEN Upper[CHOOSE i \in 1..Len(Lower) : Lower[i] = c]
    ELSE c

RECURSIVE Camel(_, _)
\* The words of s, separated by "_", each with a capital first letter,
\* joined.
Camel(s, first) ==
    IF s = <<>> THEN <<>>
    ELSE IF Head(s) = "_" THEN Camel(Tail(s), TRUE)
    ELSE <<IF first THEN Capital(Head(s)) ELSE Head(s)>>
         \o Camel(Tail(s), FALSE)

CamelCase(s) == Camel(s, TRUE)

\* The response type each property declares in its signature.
ResponseType ==
    [k \in MethodNames |->
        CASE k = "export_assets" -> "Operation"
          [] k = "batch_get_assets_history" -> "BatchGetAssetsHistoryResponse"
          [] k = "create_feed" -> "Feed"
          [] k = "get_feed" -> "Feed"
          [] k = "list_feeds" -> "ListFeedsResponse"
          [] k = "update_feed" -> "Feed"
          [] k = "delete_feed" -> "Empty"
          [] k = "search_all_resources" -> "SearchAllResourcesResponse"
          [] k = "search_all_iam_policies" -> "SearchAllIamPoliciesResponse"]

\* =============================================================== claims

\* C1: per method name at most one stub is ever created: a read of a stub
\* property calls unary_unary at most once, a read that finds no entry and
\* returns has called it exactly once and stored the result under the
\* property's name, a read that finds an entry returns that entry without
\* calling unary_unary, and all reads of one property return the same stub.
C1_OneStubPerMethod ==
    /\ [](\A k \in MethodNames :
            /\ w.uuOk[k] <= 1
            /\ Cardinality(hist.stubs[k]) <= 1
            /\ hist.stubs[k] # {} =>
                  k \in DOMAIN w.stubs /\ hist.stubs[k] = {w.stubs[k]})
    /\ [][\A k \in MethodNames :
            /\ w'.uuCalls[k] <= w.uuCalls[k] + 1
            /\ k \in DOMAIN w.stubs =>
                  /\ w'.uuCalls[k] = w.uuCalls[k]
                  /\ k \in DOMAIN w'.stubs /\ w'.stubs[k] = w.stubs[k]
            /\ (k \notin DOMAIN w.stubs /\ ret'.op = k /\ ret'.raised = NoError
                  /\ reads' = reads + 1) =>
                  /\ w'.uuCalls[k] = w.uuCalls[k] + 1
                  /\ k \in DOMAIN w'.stubs /\ w'.stubs[k] = ret'.value]_vars

\* A stub property was read twice and one stub was created for it.
C1_Witness ==
    /\ hist.served["export_assets"] = 2
    /\ w.uuOk["export_assets"] = 1
    /\ ret.op = "export_assets" /\ ret.value = w.stubs["export_assets"]

\* C2 as stated: create_channel is called at most once for the instance.
C2_CreateChannelCalledAtMostOnce == w.ccCalls <= 1

\* C2 amended: create_channel returns a channel at most once for the
\* instance and is never called once a channel is cached; the cached channel
\* never changes and every read of grpc_channel returns it.
C2_OneChannel ==
    /\ [](/\ w.ccOk <= 1
          /\ Cardinality(hist.channels) <= 1
          /\ hist.channels # {} => hist.channels = {w.grpc_channel})
    /\ [][w.grpc_channel # Absent =>
            w'.ccCalls = w.ccCalls /\ w'.grpc_channel = w.grpc_channel]_vars

\* The channel was created by the first read of grpc_channel and returned
\* again by the second.
C2_Witness ==
    /\ hist.served["grpc_channel"] = 2
    /\ w.ccOk = 1 /\ w.ccCalls = 1
    /\ ret.op = "grpc_channel" /\ ret.value = w.grpc_channel

OverridingHost(endpoint) ==
    IF SelectSeq(endpoint.s, LAMBDA c : c = ":") # <<>>
    THEN endpoint
    ELSE Str(endpoint.s \o <<":", "4", "4", "3">>)

\* C4: constructed with api_mtls_endpoint and no channel, the channel is
\* created during construction against the overriding host with SSL
\* credentials attached, and the base constructor gets the overriding host.
C4_MtlsEndpointOverridesHost ==
    (phase # "new" /\ ~Truthy(args.channel) /\ Truthy(args.api_mtls_endpoint)) =>
        /\ base_call # None =>
              base_call.host = OverridingHost(args.api_mtls_endpoint)
        /\ phase = "live" =>
              /\ base_call # None
              /\ w.ccCalls = 1 /\ w.ccOk = 1
              /\ w.grpc_channel.origin = "created"
              /\ w.grpc_channel.host = OverridingHost(args.api_mtls_endpoint)
              /\ w.grpc_channel.ssl_credentials.t = "ChannelCredentials"

\* Constructed with the endpoint "m" and the host "h": the channel and the
\* base constructor got "m:443".
C4_Witness ==
    /\ phase = "live" /\ reads = 0
    /\ args.channel = None
    /\ args.api_mtls_endpoint = Str(<<"m">>)
    /\ args.host = Str(<<"h">>)
    /\ w.grpc_channel.host = Str(<<"m", ":", "4", "4", "3">>)
    /\ base_call.host = Str(<<"m", ":", "4", "4", "3">>)

\* C5: without api_mtls_endpoint the client_cert_source callback is never
\* invoked and construction ends as the same construction without
\* client_cert_source does; with api_mtls_endpoint and no channel the
\* callback is invoked exactly once when provided, and application-default
\* SSL credentials are used when it is not.
C5_ClientCertSource ==
    phase # "new" =>
        /\ ~Truthy(args.api_mtls_endpoint) =>
              /\ w.certCalls = 0
              /\ reads = 0 =>
                    \E oCert \in Outcomes, oCC \in Outcomes :
                       LET r == init([args EXCEPT !.client_cert_source = None],
                                     oCert, oCC)
                       IN  /\ r.w = w
                           /\ r.base = base_call
                           /\ r.raised = ret.raised
        /\ (Truthy(args.api_mtls_endpoint) /\ ~Truthy(args.channel)) =>
              IF Truthy(args.client_cert_source)
              THEN /\ w.certCalls = 1
                   /\ phase = "live" =>
                         w.grpc_channel.ssl_credentials.kind = "client_cert"
              ELSE /\ w.certCalls = 0
                   /\ phase = "live" =>
                         w.grpc_channel.ssl_credentials.kind = "application_default"

\* Constructed with a callback and no api_mtls_endpoint, and the channel was
\* then created by a read.
C5_Witness ==
    /\ phase = "live"
    /\ args.api_mtls_endpoint = None /\ args.channel = None
    /\ Truthy(args.client_cert_source)
    /\ w.ccOk = 1 /\ w.certCalls = 0
    /\ w.grpc_channel.ssl_credentials = None

\* The counter of the calls made at a call site.
CallsAt(world, site, op) ==
    IF site = "create_channel" THEN world.ccCalls ELSE world.uuCalls[op]

\* C6: when create_channel or unary_unary raises E during a read, the read
\* raises E, the stub cache and the operations client are as before, a
\* failed create_channel leaves no channel, and the next read of the same
\* property makes the failed call again.
C6_ErrorsSurfaceUnchanged ==
    /\ [][(phase = "live" /\ reads' = reads + 1
             /\ w'.libErr.site \in {"create_channel", "unary_unary"}) =>
            /\ ret'.raised = w'.libErr.err
            /\ w'.stubs = w.stubs
            /\ w'.ops = w.ops
            /\ w'.libErr.site = "create_channel" =>
                  w.grpc_channel = Absent /\ w'.grpc_channel = Absent
            /\ w'.libErr.site = "unary_unary" =>
                  /\ ret'.op \notin DOMAIN w'.stubs
                  /\ w.grpc_channel # Absent => w'.grpc_channel = w.grpc_channel]_vars
    /\ [][(phase = "live" /\ reads' = reads + 1 /\ ret'.op = ret.op
             /\ w.libErr.site \in {"create_channel", "unary_unary"}) =>
            CallsAt(w', w.libErr.site, ret.op)
               = CallsAt(w, w.libErr.site, ret.op) + 1]_vars

\* unary_unary raised during a read of create_feed, and the next read of
\* create_feed called it again and returned the stub.
C6_Witness ==
    /\ ret.op = "create_feed" /\ ret.raised = NoError
    /\ w.uuCalls["create_feed"] = 2 /\ w.uuOk["create_feed"] = 1
    /\ reads = 2

\* C7: at most one OperationsAsyncClient is constructed for the instance, on
\* the instance's channel, and every read of operations_client returns it.
C7_OneOperationsClient ==
    /\ w.opsOk <= 1
    /\ Cardinality(hist.ops) <= 1
    /\ hist.ops # {} => hist.ops = {w.ops}
    /\ w.ops # Absent =>
          /\ w.opsOk = 1
          /\ w.grpc_channel # Absent
          /\ w.ops.channel = w.grpc_channel

\* operations_client was read twice and one client was constructed.
C7_Witness ==
    /\ hist.served["operations_client"] = 2
    /\ w.opsOk = 1
    /\ ret.op = "operations_client" /\ ret.value = w.ops

\* The RPC path of the method cached under name k.
PathOf(k) == Spell("/google.cloud.asset.v1.AssetService/") \o CamelCase(Spell(k))

\* C8: the stub cached under k is registered with the path of k, the
\* serializer of k's request type and the deserializer of k's response type;
\* cached stubs have different paths; a read of property k returns the stub
\* cached under k and leaves every other entry as it was.
C8_StubPerMethod ==
    /\ [](/\ DOMAIN w.stubs \subseteq MethodNames
          /\ \A k \in DOMAIN w.stubs :
                /\ Spell(w.stubs[k].path) = PathOf(k)
                /\ w.stubs[k].request_serializer.fn = "serialize"
                /\ Spell(w.stubs[k].request_serializer.type)
                      = CamelCase(Spell(k)) \o Spell("Request")
                /\ w.stubs[k].response_deserializer.type = ResponseType[k]
                /\ w.stubs[k].id[1] = k
                /\ \A j \in DOMAIN w.stubs :
                      j # k => w.stubs[j].path # w.stubs[k].path
          /\ \A k \in MethodNames :
                \A stub \in hist.stubs[k] : Spell(stub.path) = PathOf(k))
    /\ [][\A k \in MethodNames :
            (reads' = reads + 1 /\ ret'.op # k) =>
               /\ (k \in DOMAIN w'.stubs) = (k \in DOMAIN w.stubs)
               /\ k \in DOMAIN w.stubs => w'.stubs[k] = w.stubs[k]]_vars

\* The stubs of update_feed and delete_feed are both cached.
C8_Witness ==
    /\ {"update_feed", "delete_feed"} \subseteq DOMAIN w.stubs
    /\ ret.op = "delete_feed"
    /\ ret.value.path = "/google.cloud.asset.v1.AssetService/DeleteFeed"
    /\ w.stubs["update_feed"].path = "/google.cloud.asset.v1.AssetService/UpdateFeed"
====
